---- MODULE Spec2Model ----
(***************************************************************************)
(* Capture coordination and request lifecycle of TrayScreenshotApp         *)
(* (src/src/tray_app.py): the hotkey listener thread, the tray menu thread *)
(* and the analysis worker threads acting on the shared fields guarded by  *)
(* _state_lock.  One action is one critical section (one `with             *)
(* self._state_lock` block) or one unlocked access of a shared field,      *)
(* together with the thread-local statements that lead to it.              *)
(***************************************************************************)
EXTENDS Integers, Sequences, FiniteSets, TLC

\* ------------------------------------------------------------------ bounds
MaxPos == 1          \* pointer positions Position(0) .. Position(MaxPos)
MaxHotkeys == 3      \* hotkey events delivered to the listener
MaxCaptures == 1     \* "Capture Screenshot" commands from the tray menu
MaxWorkers == 2      \* analysis worker threads alive at the same time
MaxAtoms == 5        \* words and punctuation characters of a response text
MaxAround == 3       \* the same, of the text around a JSON object
MaxCoord == 4        \* pixel coordinates 0 .. MaxCoord of the corners to capture
MaxEnvKeys == 4      \* environment variables that hold an API key

\* --------------------------------------------------------------- constants
HOTKEY_ID_TOP_LEFT == 1
HOTKEY_ID_BOTTOM_RIGHT == 2

None == "None"
Threads == {"hotkey", "menu"}
Workers == 1 .. MaxWorkers

\* string.ascii_lowercase and string.ascii_uppercase, character by character.
AsciiLowercase ==
    << "a", "b", "c", "d", "e", "f", "g", "h", "i", "j", "k", "l", "m",
       "n", "o", "p", "q", "r", "s", "t", "u", "v", "w", "x", "y", "z" >>
AsciiUppercase ==
    << "A", "B", "C", "D", "E", "F", "G", "H", "I", "J", "K", "L", "M",
       "N", "O", "P", "Q", "R", "S", "T", "U", "V", "W", "X", "Y", "Z" >>
Letters == {AsciiUppercase[i] : i \in 1 .. 26}

\* Pointer positions delivered with a hotkey event: (x, y) pixel pairs.
Position(i) == <<i, i>>
Positions == {Position(i) : i \in 0 .. MaxPos}

\* The virtual desktop (mss monitor 0): left, top, width, height.
VirtualMonitor == [left |-> 0, top |-> 0, width |-> 1, height |-> 1]

VARIABLES
    top_left, bottom_right,                 \* self.top_left, self.bottom_right
    top_left_revision, bottom_right_revision,
    captured_top_left_revision, captured_bottom_right_revision,
    gemini_request_in_flight,               \* the capture gate
    answer_letter_icon,                     \* cached Letter answer or None
    free_response_answer_text,              \* cached FreeForm answer or None
    icon,                                   \* self.icon.icon, last image written
    pc,                                     \* position of the hotkey and menu threads
    ret,                                    \* where a thread's icon refresh returns to
    loc,                                    \* the threads' local variables
    workers,                                \* the analysis worker threads
    hist                                    \* history variables (not program state)

vars == <<top_left, bottom_right, top_left_revision, bottom_right_revision,
          captured_top_left_revision, captured_bottom_right_revision,
          gemini_request_in_flight, answer_letter_icon, free_response_answer_text,
          icon, pc, ret, loc, workers, hist>>

corners == <<top_left, bottom_right, top_left_revision, bottom_right_revision>>
captured == <<captured_top_left_revision, captured_bottom_right_revision>>
answer == <<answer_letter_icon, free_response_answer_text>>

Min(a, b) == IF a < b THEN a ELSE b
Max(a, b) == IF a > b THEN a ELSE b

\* ------------------------------------------------------------------- icons
LoadingIcon == [name |-> "loading", arg |-> ""]
PencilIcon == [name |-> "pencil", arg |-> ""]
LetterIcon(l) == [name |-> "letter", arg |-> l]
StatusIcon(n) == [name |-> "status", arg |-> CASE n = 0 -> "0" [] n = 1 -> "1" [] OTHER -> "2"]
NoIcon == [name |-> "none", arg |-> ""]
CountPending == [name |-> "count", arg |-> ""]

\* _updated_corner_count: how many corners moved since the consumed revisions.
UpdatedCornerCount ==
    (IF top_left_revision > captured_top_left_revision THEN 1 ELSE 0)
  + (IF bottom_right_revision > captured_bottom_right_revision THEN 1 ELSE 0)

\* The first critical section of _sync_coordinate_status_icon and the branch
\* taken on its snapshot; CountPending when _updated_corner_count is next.
SyncSnapshot ==
    IF gemini_request_in_flight THEN LoadingIcon
    ELSE IF free_response_answer_text # None THEN PencilIcon
    ELSE IF answer_letter_icon # None THEN LetterIcon(answer_letter_icon)
    ELSE CountPending

\* ----------------------------------------------------------- screen capture
\* Mutant of BuildMonitorRegion: the first corner is taken for the top left
\* one.
BuildRegionFromFirstCorner(tl, br) ==
    IF tl[1] = br[1] \/ tl[2] = br[2]
    THEN [error |-> "ValueError"]
    ELSE [error |-> None, left |-> tl[1], top |-> tl[2],
          width |-> Max(tl[1], br[1]) - Min(tl[1], br[1]),
          height |-> Max(tl[2], br[2]) - Min(tl[2], br[2])]

\* _build_monitor_region: the rectangle of two corner points, or ValueError.
BuildMonitorRegion(tl, br) ==
    LET left == Min(tl[1], br[1])
        right == Max(tl[1], br[1])
        top == Min(tl[2], br[2])
        bottom == Max(tl[2], br[2])
    IN  IF right = left \/ bottom = top
        THEN [error |-> "ValueError"]
        ELSE [error |-> None, left |-> left, top |-> top,
              width |-> right - left, height |-> bottom - top]

\* Mutant of ClampRegionToVirtualDesktop: only a region that ends before
\* the clamped left or top edge is refused.
ClampAllowsEmptyRegion(region, monitor) ==
    LET virtual_right == monitor.left + monitor.width
        virtual_bottom == monitor.top + monitor.height
        clamped_left == Max(region.left, monitor.left)
        clamped_top == Max(region.top, monitor.top)
        clamped_right == Min(region.left + region.width, virtual_right)
        clamped_bottom == Min(region.top + region.height, virtual_bottom)
    IN  IF clamped_right < clamped_left \/ clamped_bottom < clamped_top
        THEN [error |-> "ValueError"]
        ELSE [error |-> None, left |-> clamped_left, top |-> clamped_top,
              width |-> clamped_right - clamped_left,
              height |-> clamped_bottom - clamped_top]

\* _clamp_region_to_virtual_desktop: the part of the region on the desktop.
ClampRegionToVirtualDesktop(region, monitor) ==
    LET virtual_right == monitor.left + monitor.width
        virtual_bottom == monitor.top + monitor.height
        clamped_left == Max(region.left, monitor.left)
        clamped_top == Max(region.top, monitor.top)
        clamped_right == Min(region.left + region.width, virtual_right)
        clamped_bottom == Min(region.top + region.height, virtual_bottom)
    IN  IF clamped_right <= clamped_left \/ clamped_bottom <= clamped_top
        THEN [error |-> "ValueError"]
        ELSE [error |-> None, left |-> clamped_left, top |-> clamped_top,
              width |-> clamped_right - clamped_left,
              height |-> clamped_bottom - clamped_top]

\* capture_screenshot: the region grabbed for two corners, or ValueError.
CaptureScreenshot(tl, br, monitor) ==
    LET region == BuildMonitorRegion(tl, br)
    IN  IF region.error # None THEN region
        ELSE ClampRegionToVirtualDesktop(region, monitor)

\* What capture_and_save followed by _wait_for_image_ready can end with for
\* two corners on the desktop monitor: "ok" (a readable image), ValueError (the rectangle), OSError
\* (writing the PNG) or RuntimeError (the file is not ready by the deadline).
CaptureOutcomes(tl, br, monitor) ==
    IF CaptureScreenshot(tl, br, monitor).error # None
    THEN {"ValueError"}
    ELSE {"ok", "OSError", "RuntimeError"}

\* ------------------------------------------------- response interpretation
\* A pipeline response, as far as the interpreter tells responses apart:
\* json: _extract_gemini_json obtains an object; question_type, answer and
\* free_response_answer: its fields, stripped ("" when missing or blank);
\* labelled, standalone: the letter the labelled-answer pattern and the
\* standalone-letter pattern find in the raw text ("" when none).
Response(j, q, a, f, l, s) ==
    [json |-> j, question_type |-> q, answer |-> a, free_response_answer |-> f,
     labelled |-> l, standalone |-> s]

\* The responses the pipeline returns in this model.
Responses ==
    { Response(TRUE, "free_response", "A", "text", "", ""),
      Response(TRUE, "free_response", "", "", "", ""),
      Response(TRUE, "multiple_choice", "A", "", "", ""),
      Response(FALSE, "", "", "", "A", "B"),
      Response(FALSE, "", "", "", "", "") }

\* Mutant of ExtractFreeResponseAnswer: no fall back to the answer field.
ExtractFreeResponseNoFallback(r) ==
    IF ~r.json THEN None
    ELSE IF r.question_type # "free_response" THEN None
    ELSE IF r.free_response_answer # "" THEN r.free_response_answer
    ELSE None

\* _extract_free_response_answer
ExtractFreeResponseAnswer(r) ==
    IF ~r.json THEN None
    ELSE IF r.question_type # "free_response" THEN None
    ELSE IF r.free_response_answer # "" THEN r.free_response_answer
    ELSE IF r.answer # "" THEN r.answer
    ELSE None

\* Mutant of ExtractAnswerLetter: the patterns are searched before the
\* answer field is looked at.
ExtractAnswerLetterPatternsFirst(r) ==
    IF r.labelled # "" THEN r.labelled
    ELSE IF r.standalone # "" THEN r.standalone
    ELSE IF r.json /\ r.answer \in Letters THEN r.answer
    ELSE None

\* _extract_answer_letter
ExtractAnswerLetter(r) ==
    IF r.json /\ r.answer \in Letters THEN r.answer
    ELSE IF r.labelled # "" THEN r.labelled
    ELSE IF r.standalone # "" THEN r.standalone
    ELSE None

\* What _analyze_with_gemini derives from a response before it commits:
\* the free-form answer if there is one, else the letter, else nothing.
Interpret(r) ==
    IF ExtractFreeResponseAnswer(r) # None
    THEN [kind |-> "free", val |-> ExtractFreeResponseAnswer(r)]
    ELSE IF ExtractAnswerLetter(r) # None
    THEN [kind |-> "letter", val |-> ExtractAnswerLetter(r)]
    ELSE [kind |-> "none", val |-> ""]

\* --------------------------------------------------- the raw response text
\* The raw text of a response as the two letter patterns see it: a sequence
\* of atoms, each a maximal run of word characters (a word) or one
\* punctuation character, written as a tuple of characters.  White space
\* only separates atoms: both patterns allow it wherever they look.

\* str.upper, on a character, a word and a text.
UpperChar(c) ==
    IF \E i \in 1 .. 26 : AsciiLowercase[i] = c
    THEN AsciiUppercase[CHOOSE i \in 1 .. 26 : AsciiLowercase[i] = c]
    ELSE c
UpperWord(word) == [i \in 1 .. Len(word) |-> UpperChar(word[i])]
UpperText(text) == [i \in 1 .. Len(text) |-> UpperWord(text[i])]

\* The labels of answer_pattern as whole words (CORRECT\s+ANSWER ends with
\* the word ANSWER, so what follows it is matched the same way).
LabelWords ==
    { <<"A", "N", "S", "W", "E", "R">>, <<"O", "P", "T", "I", "O", "N">>,
      <<"C", "H", "O", "I", "C", "E">> }

\* answer_pattern tried with its label at atom i of the upper-cased text:
\* the label, an optional ":" or "-", an optional "(", then ([A-Z]), which
\* is the next character whatever follows it.  "" when there is no match.
AnswerPatternAt(normalized, i) ==
    LET n == Len(normalized)
        j == IF i + 1 <= n /\ normalized[i + 1] \in {<<":">>, <<"-">>}
             THEN i + 2 ELSE i + 1
        k == IF j <= n /\ normalized[j] = <<"(">> THEN j + 1 ELSE j
    IN  IF normalized[i] \in LabelWords /\ k <= n /\ normalized[k][1] \in Letters
        THEN normalized[k][1]
        ELSE ""

\* re.search(answer_pattern): the leftmost match, "" when there is none.
AnswerPattern(normalized) ==
    LET matches == {i \in 1 .. Len(normalized) : AnswerPatternAt(normalized, i) # ""}
    IN  IF matches = {} THEN ""
        ELSE AnswerPatternAt(normalized,
                 CHOOSE i \in matches : \A m \in matches : i <= m)

\* re.search(r"\b([A-Z])\b"): the leftmost word that is one letter.
StandaloneLetter(normalized) ==
    LET matches == {i \in 1 .. Len(normalized) :
                        Len(normalized[i]) = 1 /\ normalized[i][1] \in Letters}
    IN  IF matches = {} THEN ""
        ELSE normalized[CHOOSE i \in matches : \A m \in matches : i <= m][1]

\* A response as received: whether it holds a JSON object that
\* _extract_gemini_json obtains, the object's fields (stripped; "" for an
\* empty or missing one), the text around the object, and the number of
\* atoms of that text that come before the object.
RawResponse(j, q, a, f, text, at) ==
    [json |-> j, question_type |-> q, answer |-> a, free_response_answer |-> f,
     text |-> text, at |-> at]

\* The characters of the keys and values of the objects.
Chars(string) ==
    CASE string = "question_type" ->
            <<"q", "u", "e", "s", "t", "i", "o", "n", "_", "t", "y", "p", "e">>
      [] string = "answer" -> <<"a", "n", "s", "w", "e", "r">>
      [] string = "free_response_answer" ->
            <<"f", "r", "e", "e", "_", "r", "e", "s", "p", "o", "n", "s", "e", "_",
              "a", "n", "s", "w", "e", "r">>
      [] string = "free_response" ->
            <<"f", "r", "e", "e", "_", "r", "e", "s", "p", "o", "n", "s", "e">>
      [] string = "multiple_choice" ->
            <<"m", "u", "l", "t", "i", "p", "l", "e", "_", "c", "h", "o", "i", "c", "e">>
      [] string = "A" -> <<"A">>
      [] string = "AB" -> <<"A", "B">>
      [] string = "42" -> <<"4", "2">>
      [] string = "This" -> <<"T", "h", "i", "s">>
      [] string = "is" -> <<"i", "s">>
      [] string = "a" -> <<"a">>
      [] string = "predefined" ->
            <<"p", "r", "e", "d", "e", "f", "i", "n", "e", "d">>
      [] string = "free" -> <<"f", "r", "e", "e">>
      [] string = "response" -> <<"r", "e", "s", "p", "o", "n", "s", "e">>
      [] string = "for" -> <<"f", "o", "r">>
      [] string = "testing" -> <<"t", "e", "s", "t", "i", "n", "g">>
      [] string = "." -> <<".">>

\* The answer of TEST_FREE_RESPONSE_JSON (its first sentence; the others
\* repeat it or have no letter standing alone).
TestAnswer == "This is a predefined free response answer for testing."

\* The atoms of a value.
Words(value) ==
    IF value = TestAnswer
    THEN <<Chars("This"), Chars("is"), Chars("a"), Chars("predefined"),
           Chars("free"), Chars("response"), Chars("answer"), Chars("for"),
           Chars("testing"), Chars(".")>>
    ELSE <<Chars(value)>>

\* The atoms of the members "key": "value", separated by commas.
RECURSIVE JsonMembers(_)
JsonMembers(members) ==
    IF members = <<>> THEN <<>>
    ELSE << <<"\"">>, Chars(Head(members)[1]), <<"\"">>, <<":">>, <<"\"">> >>
         \o Words(Head(members)[2]) \o << <<"\"">> >>
         \o (IF Tail(members) = <<>> THEN <<>>
             ELSE << <<",">> >> \o JsonMembers(Tail(members)))

\* The atoms of the object's text: the members whose value is not empty.
JsonText(q, a, f) ==
    LET HasValue(member) == member[2] # ""
    IN  << <<"{">> >>
        \o JsonMembers(SelectSeq(<< <<"question_type", q>>, <<"answer", a>>,
                                    <<"free_response_answer", f>> >>, HasValue))
        \o << <<"}">> >>

\* compact: the whole text of the response, the object's text included.
Compact(raw) ==
    IF raw.json
    THEN SubSeq(raw.text, 1, raw.at)
         \o JsonText(raw.question_type, raw.answer, raw.free_response_answer)
         \o SubSeq(raw.text, raw.at + 1, Len(raw.text))
    ELSE raw.text

\* The response as the interpreter tells it apart: the two patterns run on
\* compact.upper().
ResponseOf(raw) ==
    Response(raw.json, raw.question_type, raw.answer, raw.free_response_answer,
             AnswerPattern(UpperText(Compact(raw))),
             StandaloneLetter(UpperText(Compact(raw))))

\* ------------------------------------------------------------ initial state
NoPoint == <<>>

\* The local variables of a handler that is not running.  changed is the
\* result of _set_*_from_mouse, pend the icon _sync_coordinate_status_icon
\* is about to write, exc the exception _capture_and_process raised.
\* virtual_monitor is the desktop mss reports to the thread's captures
\* (sct.monitors[0]); it is not a local and stays as it is.
IdleLocals ==
    [hotkey_id |-> 0, position |-> NoPoint, changed |-> FALSE,
     top_left |-> NoPoint, bottom_right |-> NoPoint,
     top_left_revision |-> 0, bottom_right_revision |-> 0,
     pend |-> NoIcon, exc |-> None, virtual_monitor |-> VirtualMonitor]

\* No image: no region was grabbed.
NoImage == [error |-> None, left |-> 0, top |-> 0, width |-> 0, height |-> 0]

\* No response: the empty text.
NoResponse == RawResponse(FALSE, "", "", "", <<>>, 0)

\* A worker slot with no thread in it.  image is the region of the
\* screenshot the worker analyses, outcome is what the pipeline call
\* ended with ("error": it raised RuntimeError).  api_key_candidates,
\* models, key, model and last_error are the pipeline's: the keys and the
\* models to try, the ones being tried (0: none), and the kind of the last
\* exception caught.  trigger, stale and marks
\* are history fields: the handler the cycle was started by, whether a corner
\* moved after the cycle's corner points were read, and how often the
\* cycle's consumed revisions were marked.
FreeWorker ==
    [pc |-> "free", outcome |-> None, pend |-> NoIcon,
     trigger |-> None, stale |-> FALSE, marks |-> 0, response |-> NoResponse,
     image |-> NoImage, api_key_candidates |-> <<>>, models |-> <<>>,
     key |-> 0, model |-> 0, last_error |-> None]

\* History: moved_*, the corner had a position-changing update since the
\* consumed revisions were last marked; menu_stale, a corner moved after the
\* menu thread read a corner point for its capture; spawned, the worker the
\* hotkey thread started in its running handler (0: none, or it has ended);
\* answer_stale, a corner moved after the corner points of the cycle that
\* committed the cached answer were read; arrived_blocked, the gate was set
\* when the last hotkey event arrived; held_current, the threads that have
\* set the gate for a capture not yet made and whose corner points were the
\* current pair at some moment since they set it; hotkeys, captures, the
\* events delivered so far.
InitHist ==
    [moved_top_left |-> FALSE, moved_bottom_right |-> FALSE,
     menu_stale |-> FALSE, spawned |-> 0, answer_stale |-> FALSE,
     arrived_blocked |-> FALSE, held_current |-> {},
     hotkeys |-> 0, captures |-> 0]

Init ==
    /\ top_left = Position(0)
    /\ bottom_right = Position(MaxPos + 1)
    /\ top_left_revision = 0
    /\ bottom_right_revision = 0
    /\ captured_top_left_revision = 0
    /\ captured_bottom_right_revision = 0
    /\ gemini_request_in_flight = FALSE
    /\ answer_letter_icon = None
    /\ free_response_answer_text = None
    /\ icon = StatusIcon(0)
    /\ pc = [t \in Threads |-> "idle"]
    /\ ret = [t \in Threads |-> "idle"]
    /\ loc = [t \in Threads |-> IdleLocals]
    /\ workers = [w \in Workers |-> FreeWorker]
    /\ hist = InitHist

\* ---------------------------------------------------------- the state lock
\* Mutant of LockedPositions: the pipeline call is made inside a
\* `with self._state_lock` block.
LockedDuringAnalysis == {"analyze"}

\* A `with self._state_lock` block is one step here, so a handler thread
\* holds the lock in no state.  LockedPositions: the positions of a worker
\* thread at which it holds the lock; none, for _analyze_with_gemini calls
\* prompt_with_uploaded_image, the setters, _set_capture_blocked and
\* _sync_coordinate_status_icon outside any `with self._state_lock` block.
LockedPositions == {}

StateLockHolders == {w \in Workers : workers[w].pc \in LockedPositions}

\* threading.Lock is free: a critical section can be entered.
StateLockFree == StateLockHolders = {}

\* ------------------------------------------------------- control transfer
\* The history after the handler of thread t returned.
HistAfterReturn(t, h) ==
    IF t = "menu" THEN [h EXCEPT !.menu_stale = FALSE, !.held_current = @ \ {t}]
    ELSE [h EXCEPT !.spawned = 0, !.held_current = @ \ {t}]

\* The handler of thread t returns: its locals die.
Return(t) ==
    /\ pc' = [pc EXCEPT ![t] = "idle"]
    /\ ret' = [ret EXCEPT ![t] = "idle"]
    /\ loc' = [loc EXCEPT ![t] = [IdleLocals EXCEPT !.virtual_monitor =
                                                   loc[t].virtual_monitor]]
    /\ hist' = HistAfterReturn(t, hist)

\* Thread t calls _sync_coordinate_status_icon and continues at r after it.
CallSync(t, r) ==
    /\ pc' = [pc EXCEPT ![t] = "sync_snap"]
    /\ ret' = [ret EXCEPT ![t] = r]

\* The history after corner c moved: the cached answer, the workers' cycles
\* and the capture the menu thread has read corner c for are now of an old
\* rectangle.
HistAfterMove(c) ==
    [hist EXCEPT
        !.held_current = @ \cup
            {t \in Threads :
                /\ pc[t] = "capture"
                /\ loc[t].top_left = IF c = HOTKEY_ID_TOP_LEFT
                                     THEN loc["hotkey"].position ELSE top_left
                /\ loc[t].bottom_right = IF c = HOTKEY_ID_BOTTOM_RIGHT
                                         THEN loc["hotkey"].position ELSE bottom_right},
        !.moved_top_left = @ \/ c = HOTKEY_ID_TOP_LEFT,
        !.moved_bottom_right = @ \/ c = HOTKEY_ID_BOTTOM_RIGHT,
        !.menu_stale = @ \/ pc["menu"] \in {"cap_check", "cap_set", "capture"}
                         \/ (pc["menu"] = "read_bottom_right" /\ c = HOTKEY_ID_TOP_LEFT),
        !.answer_stale = answer_letter_icon # None \/ free_response_answer_text # None]

WorkersAfterMove ==
    [w \in Workers |-> IF workers[w].pc = "analyze"
                       THEN [workers[w] EXCEPT !.stale = TRUE]
                       ELSE workers[w]]

\* ----------------------------------------------------- the hotkey listener
\* _hotkey_loop receives WM_HOTKEY and calls _on_hotkey(hotkey_id), which
\* clears the cached answer (_clear_answer_letter_icon); _set_*_from_mouse
\* then reads the pointer position.
OnHotkey(id) ==
    /\ pc["hotkey"] = "idle"
    /\ StateLockFree
    /\ hist.hotkeys < MaxHotkeys
    /\ answer_letter_icon' = None
    /\ free_response_answer_text' = None
    /\ \E p \in Positions :
        loc' = [loc EXCEPT !["hotkey"].hotkey_id = id, !["hotkey"].position = p]
    /\ pc' = [pc EXCEPT !["hotkey"] = "set"]
    /\ hist' = [hist EXCEPT !.answer_stale = FALSE, !.hotkeys = @ + 1,
                             !.arrived_blocked = gemini_request_in_flight]
    /\ UNCHANGED <<corners, captured, gemini_request_in_flight, icon, ret, workers>>

\* Mutant of NextRevision: the revision skips a value.
RevisionSkips(revision) == revision + 2

\* The revision of a corner after _set_*_from_mouse stored a new position.
NextRevision(revision) == revision + 1

\* The locals of the hotkey thread after _set_*_from_mouse returned.
LocalsAfterSet(changed) ==
    [loc EXCEPT !["hotkey"].changed = changed,
                !["hotkey"].hotkey_id = 0,
                !["hotkey"].position = NoPoint]

\* Mutant of SetTopLeftFromMouse: the position is stored without comparing
\* it with the current one.
SetTopLeftWithoutCompare ==
    /\ pc["hotkey"] = "set"
    /\ StateLockFree
    /\ loc["hotkey"].hotkey_id = HOTKEY_ID_TOP_LEFT
    /\ top_left' = loc["hotkey"].position
    /\ top_left_revision' = NextRevision(top_left_revision)
    /\ loc' = LocalsAfterSet(TRUE)
    /\ hist' = HistAfterMove(HOTKEY_ID_TOP_LEFT)
    /\ workers' = WorkersAfterMove
    /\ CallSync("hotkey", "try")
    /\ UNCHANGED <<bottom_right, bottom_right_revision, captured,
                   gemini_request_in_flight, answer, icon>>

\* _set_top_left_from_mouse, the critical section; changed is its result.
SetTopLeftFromMouse ==
    LET position == loc["hotkey"].position
    IN  /\ pc["hotkey"] = "set"
        /\ StateLockFree
        /\ loc["hotkey"].hotkey_id = HOTKEY_ID_TOP_LEFT
        /\ IF position = top_left
           THEN /\ loc' = LocalsAfterSet(FALSE)
                /\ UNCHANGED <<top_left, top_left_revision, hist, workers>>
           ELSE /\ top_left' = position
                /\ top_left_revision' = NextRevision(top_left_revision)
                /\ loc' = LocalsAfterSet(TRUE)
                /\ hist' = HistAfterMove(HOTKEY_ID_TOP_LEFT)
                /\ workers' = WorkersAfterMove
        /\ CallSync("hotkey", "try")
        /\ UNCHANGED <<bottom_right, bottom_right_revision, captured,
                       gemini_request_in_flight, answer, icon>>

\* _set_bottom_right_from_mouse, the critical section.
SetBottomRightFromMouse ==
    LET position == loc["hotkey"].position
    IN  /\ pc["hotkey"] = "set"
        /\ StateLockFree
        /\ loc["hotkey"].hotkey_id = HOTKEY_ID_BOTTOM_RIGHT
        /\ IF position = bottom_right
           THEN /\ loc' = LocalsAfterSet(FALSE)
                /\ UNCHANGED <<bottom_right, bottom_right_revision, hist, workers>>
           ELSE /\ bottom_right' = position
                /\ bottom_right_revision' = NextRevision(bottom_right_revision)
                /\ loc' = LocalsAfterSet(TRUE)
                /\ hist' = HistAfterMove(HOTKEY_ID_BOTTOM_RIGHT)
                /\ workers' = WorkersAfterMove
        /\ CallSync("hotkey", "try")
        /\ UNCHANGED <<top_left, top_left_revision, captured,
                       gemini_request_in_flight, answer, icon>>

\* Mutant of TryCaptureCheckBlocked: a blocked trigger is kept and tried
\* again after an icon refresh.
TryCaptureRetriesWhenBlocked ==
    /\ pc["hotkey"] = "try_check"
    /\ StateLockFree
    /\ IF gemini_request_in_flight
       THEN CallSync("hotkey", "try") /\ UNCHANGED <<loc, hist>>
       ELSE /\ pc' = [pc EXCEPT !["hotkey"] = "try_read"]
            /\ UNCHANGED <<ret, loc, hist>>
    /\ UNCHANGED <<corners, captured, gemini_request_in_flight, answer, icon,
                   workers>>

\* _try_capture_after_corner_updates, first statement: return when blocked.
TryCaptureCheckBlocked ==
    /\ pc["hotkey"] = "try_check"
    /\ StateLockFree
    /\ IF gemini_request_in_flight
       THEN Return("hotkey")
       ELSE /\ pc' = [pc EXCEPT !["hotkey"] = "try_read"]
            /\ UNCHANGED <<ret, loc, hist>>
    /\ UNCHANGED <<corners, captured, gemini_request_in_flight, answer, icon,
                   workers>>

\* both_updated of _try_capture_after_corner_updates.
BothUpdated ==
    /\ top_left_revision > captured_top_left_revision
    /\ bottom_right_revision > captured_bottom_right_revision

\* _try_capture_after_corner_updates, the critical section: return unless
\* both corners were updated, else read the corners and their revisions;
\* then _set_loading_icon.
TryCaptureReadCorners ==
    /\ pc["hotkey"] = "try_read"
    /\ StateLockFree
    /\ IF ~BothUpdated
       THEN Return("hotkey") /\ UNCHANGED icon
       ELSE /\ loc' = [loc EXCEPT !["hotkey"].top_left = top_left,
                                  !["hotkey"].bottom_right = bottom_right,
                                  !["hotkey"].top_left_revision = top_left_revision,
                                  !["hotkey"].bottom_right_revision = bottom_right_revision]
            /\ icon' = LoadingIcon
            /\ pc' = [pc EXCEPT !["hotkey"] = "cap_check"]
            /\ UNCHANGED <<ret, hist>>
    /\ UNCHANGED <<corners, captured, gemini_request_in_flight, answer, workers>>

\* Mutant of MarkedRevisions: the consumed revisions stay as they were.
MarkedRevisionsKept(l) ==
    <<captured_top_left_revision, captured_bottom_right_revision>>

\* Mutant of MarkedRevisions: the consumed revisions are marked one ahead of
\* the revisions read.
MarkedRevisionsAhead(l) == <<l.top_left_revision + 1, l.bottom_right_revision + 1>>

\* The consumed revisions _try_capture_after_corner_updates stores after
\* _capture_and_process returned: the revisions it read with the corners.
MarkedRevisions(l) == <<l.top_left_revision, l.bottom_right_revision>>

\* _try_capture_after_corner_updates: the capture was accepted and its worker
\* started; mark the revisions read as consumed, then refresh the icon.
MarkConsumed ==
    /\ pc["hotkey"] = "mark"
    /\ StateLockFree
    /\ captured_top_left_revision' = MarkedRevisions(loc["hotkey"])[1]
    /\ captured_bottom_right_revision' = MarkedRevisions(loc["hotkey"])[2]
    /\ hist' = [hist EXCEPT !.moved_top_left = FALSE, !.moved_bottom_right = FALSE]
    /\ workers' = IF hist.spawned = 0 THEN workers
                  ELSE [workers EXCEPT ![hist.spawned].marks = @ + 1]
    /\ CallSync("hotkey", "idle")
    /\ UNCHANGED <<corners, gemini_request_in_flight, answer, icon, loc>>

\* ------------------------------------------------------------ the tray menu
\* The menu thread calls _on_capture ("Capture Screenshot"), which returns
\* at once when the gate is set.
OnCapture ==
    /\ pc["menu"] = "idle"
    /\ StateLockFree
    /\ hist.captures < MaxCaptures
    /\ IF gemini_request_in_flight
       THEN UNCHANGED pc
       ELSE pc' = [pc EXCEPT !["menu"] = "read_top_left"]
    /\ hist' = [hist EXCEPT !.captures = @ + 1]
    /\ UNCHANGED <<corners, captured, gemini_request_in_flight, answer, icon,
                   ret, loc, workers>>

\* _capture_now evaluates the argument self.top_left ...
CaptureNowReadTopLeft ==
    /\ pc["menu"] = "read_top_left"
    /\ loc' = [loc EXCEPT !["menu"].top_left = top_left]
    /\ pc' = [pc EXCEPT !["menu"] = "read_bottom_right"]
    /\ UNCHANGED <<corners, captured, gemini_request_in_flight, answer, icon,
                   ret, workers, hist>>

\* ... and then the argument self.bottom_right, neither under the lock.
CaptureNowReadBottomRight ==
    /\ pc["menu"] = "read_bottom_right"
    /\ loc' = [loc EXCEPT !["menu"].bottom_right = bottom_right]
    /\ pc' = [pc EXCEPT !["menu"] = "cap_check"]
    /\ UNCHANGED <<corners, captured, gemini_request_in_flight, answer, icon,
                   ret, workers, hist>>

\* ------------------------------------------------- _capture_and_process
\* Run by the hotkey thread (from _try_capture_after_corner_updates) and by
\* the menu thread (from _capture_now) on the corner points each has read.

\* First statement: raise RuntimeError when the gate is set.  The caller
\* swallows it: _try_capture_after_corner_updates refreshes the icon in its
\* finally clause, _on_capture returns.
CapCheckBlocked(t) ==
    /\ pc[t] = "cap_check"
    /\ StateLockFree
    /\ IF gemini_request_in_flight
       THEN IF t = "hotkey"
            THEN CallSync(t, "idle") /\ UNCHANGED <<loc, hist>>
            ELSE Return(t)
       ELSE /\ pc' = [pc EXCEPT ![t] = "cap_set"]
            /\ UNCHANGED <<ret, loc, hist>>
    /\ UNCHANGED <<corners, captured, gemini_request_in_flight, answer, icon,
                   workers>>

\* _set_capture_blocked(True), then _set_loading_icon: the cycle of thread t
\* starts.
CapSetBlocked(t) ==
    /\ pc[t] = "cap_set"
    /\ StateLockFree
    /\ gemini_request_in_flight' = TRUE
    /\ icon' = LoadingIcon
    /\ pc' = [pc EXCEPT ![t] = "capture"]
    /\ hist' = [hist EXCEPT !.held_current =
                    IF loc[t].top_left = top_left /\ loc[t].bottom_right = bottom_right
                    THEN @ \cup {t} ELSE @ \ {t}]
    /\ UNCHANGED <<corners, captured, answer, ret, loc, workers>>

\* The lowest worker slot with no thread in it (0 when all are taken).
FreeSlot ==
    IF \E w \in Workers : workers[w].pc = "free"
    THEN CHOOSE w \in Workers :
            /\ workers[w].pc = "free"
            /\ \A v \in Workers : v < w => workers[v].pc # "free"
    ELSE 0

\* capture_and_save and _wait_for_image_ready succeed and
\* _start_gemini_analysis starts the worker thread on the image.  Then
\* _try_capture_after_corner_updates goes on to mark the revisions consumed,
\* and _on_capture returns.
CaptureAndStartAnalysis(t) ==
    /\ pc[t] = "capture"
    /\ "ok" \in CaptureOutcomes(loc[t].top_left, loc[t].bottom_right,
                               loc[t].virtual_monitor)
    /\ FreeSlot # 0
    /\ workers' = [workers EXCEPT ![FreeSlot] =
                      [pc |-> "analyze", outcome |-> None, pend |-> NoIcon,
                       response |-> NoResponse,
                       image |-> CaptureScreenshot(loc[t].top_left,
                                                   loc[t].bottom_right,
                                                   loc[t].virtual_monitor),
                       api_key_candidates |-> <<>>, models |-> <<>>,
                       key |-> 0, model |-> 0, last_error |-> None,
                       trigger |-> t, marks |-> 0,
                       stale |-> t = "menu" /\ hist.menu_stale]]
    /\ IF t = "hotkey"
       THEN /\ pc' = [pc EXCEPT ![t] = "mark"]
            /\ hist' = [hist EXCEPT !.spawned = FreeSlot, !.held_current = @ \ {t}]
            /\ UNCHANGED <<ret, loc>>
       ELSE Return(t)
    /\ UNCHANGED <<corners, captured, gemini_request_in_flight, answer, icon>>

\* Mutant of GateAfterCaptureFailure: the except clause leaves the gate set.
GateLeftSetByCapture == TRUE

\* The gate after the except clause of _capture_and_process.
GateAfterCaptureFailure == FALSE

\* capture_and_save or _wait_for_image_ready raises: no image.  The except
\* clause calls _set_capture_blocked(False), refreshes the icon and raises
\* the exception again.
CaptureFails(t) ==
    /\ pc[t] = "capture"
    /\ StateLockFree
    /\ \E e \in CaptureOutcomes(loc[t].top_left, loc[t].bottom_right,
                                loc[t].virtual_monitor) \ {"ok"} :
        loc' = [loc EXCEPT ![t].exc = e]
    /\ gemini_request_in_flight' = GateAfterCaptureFailure
    /\ CallSync(t, "raise")
    /\ hist' = [hist EXCEPT !.held_current = @ \ {t}]
    /\ UNCHANGED <<corners, captured, answer, icon, workers>>

\* ------------------------------------------ _sync_coordinate_status_icon
\* First critical section: snapshot the gate and the cached answer.
SyncSnap(t) ==
    /\ pc[t] = "sync_snap"
    /\ StateLockFree
    /\ loc' = [loc EXCEPT ![t].pend = SyncSnapshot, ![t].exc = None]
    /\ pc' = [pc EXCEPT ![t] =
                 IF SyncSnapshot = CountPending THEN "sync_count" ELSE "sync_write"]
    /\ UNCHANGED <<corners, captured, gemini_request_in_flight, answer, icon,
                   ret, workers, hist>>

\* Second critical section (_updated_corner_count), idle branch only.
SyncCount(t) ==
    /\ pc[t] = "sync_count"
    /\ StateLockFree
    /\ loc' = [loc EXCEPT ![t].pend = StatusIcon(UpdatedCornerCount)]
    /\ pc' = [pc EXCEPT ![t] = "sync_write"]
    /\ UNCHANGED <<corners, captured, gemini_request_in_flight, answer, icon,
                   ret, workers, hist>>

\* self.icon.icon = ..., then back to the caller: on to
\* _try_capture_after_corner_updates (ret "try"), out of the handler (ret
\* "idle"), or, with the exception of _capture_and_process (ret "raise"),
\* to the finally clause of _try_capture_after_corner_updates or out of
\* _on_capture.
SyncWrite(t) ==
    /\ pc[t] = "sync_write"
    /\ icon' = loc[t].pend
    /\ CASE ret[t] = "try" ->
                /\ pc' = [pc EXCEPT ![t] = "try_check"]
                /\ loc' = [loc EXCEPT ![t].pend = NoIcon]
                /\ UNCHANGED <<ret, hist>>
         [] ret[t] = "raise" /\ t = "hotkey" ->
                /\ CallSync(t, "idle")
                /\ loc' = [loc EXCEPT ![t].pend = NoIcon]
                /\ UNCHANGED hist
         [] OTHER -> Return(t)
    /\ UNCHANGED <<corners, captured, gemini_request_in_flight, answer, workers>>

\* ------------------------------------------- the analysis worker threads
\* Mutant of GateAfterAnalysis: the worker ends without releasing the gate.
GateLeftSetByWorker == TRUE

\* The gate after the finally clause of _analyze_with_gemini.
GateAfterAnalysis == FALSE

\* Mutant of AnswerAfterLetter: the free-form text is left in place.
AnswerAfterLetterKeepsText(letter) == <<letter, free_response_answer_text>>

\* _set_answer_letter_icon, the critical section: the cached answer
\* <<letter, free-form text>> after the letter was committed.
AnswerAfterLetter(letter) == <<letter, None>>

\* _set_free_response_answer, the critical section.
AnswerAfterFreeResponse(text) == <<None, text>>

\* Mutant of GateAfterCommit: the setter also clears the gate.
GateReleasedAtCommit == FALSE

\* The gate after _set_free_response_answer or _set_answer_letter_icon: as
\* it was.
GateAfterCommit == gemini_request_in_flight

\* The try block of _analyze_with_gemini for a response r with an answer in
\* it: _set_free_response_answer or _set_answer_letter_icon commits it.
CommitAnswer(w, r) ==
    /\ LET committed == IF Interpret(r).kind = "free"
                        THEN AnswerAfterFreeResponse(Interpret(r).val)
                        ELSE AnswerAfterLetter(Interpret(r).val)
       IN  /\ answer_letter_icon' = committed[1]
           /\ free_response_answer_text' = committed[2]
    /\ workers' = [workers EXCEPT ![w].pc = "release",
                                  ![w].outcome = Interpret(r).kind]
    /\ hist' = [hist EXCEPT !.answer_stale = workers[w].stale]
    /\ gemini_request_in_flight' = GateAfterCommit
    /\ UNCHANGED <<corners, captured, icon, pc, ret, loc>>

\* _analyze_with_gemini when nothing is committed (o is "none": the response
\* has no answer in it, or "error": the pipeline raised RuntimeError): the
\* finally clause calls _set_capture_blocked(False).
EndWithoutAnswer(w, o) ==
    /\ workers' = [workers EXCEPT ![w] =
                      [FreeWorker EXCEPT !.pc = "sync_snap", !.outcome = o,
                                         !.response = workers[w].response]]
    /\ gemini_request_in_flight' = GateAfterAnalysis
    /\ hist' = [hist EXCEPT !.spawned = IF @ = w THEN 0 ELSE @]
    /\ UNCHANGED <<corners, captured, answer, icon, pc, ret, loc>>

\* prompt_with_uploaded_image returns a response with an answer in it, and
\* _set_free_response_answer or _set_answer_letter_icon commits it.
AnalysisCommitsAnswer(w) ==
    /\ workers[w].pc = "analyze"
    /\ StateLockFree
    /\ \E r \in Responses :
        /\ Interpret(r).kind # "none"
        /\ CommitAnswer(w, r)

\* finally, after an answer was committed: _set_capture_blocked(False).
ReleaseGate(w) ==
    /\ workers[w].pc = "release"
    /\ StateLockFree
    /\ gemini_request_in_flight' = GateAfterAnalysis
    /\ workers' = [workers EXCEPT ![w] = [FreeWorker EXCEPT !.pc = "sync_snap"]]
    /\ hist' = [hist EXCEPT !.spawned = IF @ = w THEN 0 ELSE @]
    /\ UNCHANGED <<corners, captured, answer, icon, pc, ret, loc>>

\* prompt_with_uploaded_image returns a response with no answer in it
\* ("none") or raises RuntimeError ("error"); nothing is committed and the
\* finally clause calls _set_capture_blocked(False).
AnalysisEndsWithoutAnswer(w) ==
    /\ workers[w].pc = "analyze"
    /\ StateLockFree
    /\ \E o \in {"error"} \cup {Interpret(r).kind : r \in Responses} :
        /\ o \in {"error", "none"}
        /\ EndWithoutAnswer(w, o)

\* The worker has received the response text (workers[w].response) from
\* prompt_with_uploaded_image: the rest of the try block and the finally
\* clause's _set_capture_blocked(False) when nothing is committed.
WorkerInterprets(w) ==
    /\ workers[w].pc = "received"
    /\ StateLockFree
    /\ LET r == ResponseOf(workers[w].response)
       IN  IF Interpret(r).kind # "none"
           THEN CommitAnswer(w, r)
           ELSE EndWithoutAnswer(w, "none")

\* finally: _sync_coordinate_status_icon, in three steps as above.
WorkerSyncSnap(w) ==
    /\ workers[w].pc = "sync_snap"
    /\ StateLockFree
    /\ workers' = [workers EXCEPT ![w].pend = SyncSnapshot,
                       ![w].outcome = None,
                       ![w].response = NoResponse,
                       ![w].pc = IF SyncSnapshot = CountPending
                                 THEN "sync_count" ELSE "sync_write"]
    /\ UNCHANGED <<corners, captured, gemini_request_in_flight, answer, icon,
                   pc, ret, loc, hist>>

WorkerSyncCount(w) ==
    /\ workers[w].pc = "sync_count"
    /\ StateLockFree
    /\ workers' = [workers EXCEPT ![w].pend = StatusIcon(UpdatedCornerCount),
                                  ![w].pc = "sync_write"]
    /\ UNCHANGED <<corners, captured, gemini_request_in_flight, answer, icon,
                   pc, ret, loc, hist>>

\* The last icon write; the worker thread ends.
WorkerSyncWrite(w) ==
    /\ workers[w].pc = "sync_write"
    /\ icon' = workers[w].pend
    /\ workers' = [workers EXCEPT ![w] = FreeWorker]
    /\ UNCHANGED <<corners, captured, gemini_request_in_flight, answer, pc, ret,
                   loc, hist>>

\* ------------------------------------------------------------ specification
Next ==
    \/ \E id \in {HOTKEY_ID_TOP_LEFT, HOTKEY_ID_BOTTOM_RIGHT} : OnHotkey(id)
    \/ SetTopLeftFromMouse
    \/ SetBottomRightFromMouse
    \/ TryCaptureCheckBlocked
    \/ TryCaptureReadCorners
    \/ MarkConsumed
    \/ OnCapture
    \/ CaptureNowReadTopLeft
    \/ CaptureNowReadBottomRight
    \/ \E t \in Threads : CapCheckBlocked(t)
    \/ \E t \in Threads : CapSetBlocked(t)
    \/ \E t \in Threads : CaptureAndStartAnalysis(t)
    \/ \E t \in Threads : CaptureFails(t)
    \/ \E t \in Threads : SyncSnap(t)
    \/ \E t \in Threads : SyncCount(t)
    \/ \E t \in Threads : SyncWrite(t)
    \/ \E w \in Workers : AnalysisCommitsAnswer(w)
    \/ \E w \in Workers : ReleaseGate(w)
    \/ \E w \in Workers : AnalysisEndsWithoutAnswer(w)
    \/ \E w \in Workers : WorkerSyncSnap(w)
    \/ \E w \in Workers : WorkerSyncCount(w)
    \/ \E w \in Workers : WorkerSyncWrite(w)

Spec == Init /\ [][Next]_vars

\* Fair scheduling: a thread that can take a step of its handler is not
\* held back for ever.  The events (a hotkey, a menu command) need not come.
ThreadStep(t) ==
    \/ t = "hotkey" /\ (SetTopLeftFromMouse \/ SetBottomRightFromMouse
                          \/ TryCaptureCheckBlocked \/ TryCaptureReadCorners
                          \/ MarkConsumed)
    \/ t = "menu" /\ (CaptureNowReadTopLeft \/ CaptureNowReadBottomRight)
    \/ CapCheckBlocked(t) \/ CapSetBlocked(t)
    \/ CaptureAndStartAnalysis(t) \/ CaptureFails(t)
    \/ SyncSnap(t) \/ SyncCount(t) \/ SyncWrite(t)

WorkerStep(w) ==
    \/ AnalysisCommitsAnswer(w) \/ ReleaseGate(w) \/ AnalysisEndsWithoutAnswer(w)
    \/ WorkerSyncSnap(w) \/ WorkerSyncCount(w) \/ WorkerSyncWrite(w)

FairSpec ==
    /\ Spec
    /\ \A t \in Threads : WF_vars(ThreadStep(t))
    /\ \A w \in Workers : WF_vars(WorkerStep(w))

\* ------------------------------------------------ the response interpreter
\* The interpretation of a response on its own: a capture-now cycle has
\* captured the initial rectangle, its handler has returned, and the worker
\* has received a response text; the worker interprets and commits it,
\* releases the gate and refreshes the icon.

\* The atoms of the response texts: the words "answer", "is", "B" and "a",
\* and the punctuation characters ":" and "(".
Atoms ==
    { <<"a", "n", "s", "w", "e", "r">>, <<"i", "s">>, <<"B">>, <<"a">>,
      <<":">>, <<"(">> }
Texts == UNION {[1 .. n -> Atoms] : n \in 0 .. MaxAtoms}
TextsAround == UNION {[1 .. n -> Atoms] : n \in 0 .. MaxAround}

\* The fields of the JSON objects: question_type (missing, free_response,
\* another type), answer (empty or missing,
\* a letter, longer text) and free_response_answer (empty or missing, text).
QuestionTypes == {"", "free_response", "multiple_choice"}
AnswerFields == {"", "A", "AB"}
FreeResponseFields == {"", "42"}

\* The responses with no JSON object in them, and those with one (alone,
\* or with text before or after it).
RawResponses ==
    {RawResponse(FALSE, "", "", "", text, 0) : text \in Texts}
    \cup UNION {{RawResponse(TRUE, q, a, f, text, at) :
                    q \in QuestionTypes, a \in AnswerFields,
                    f \in FreeResponseFields, at \in 0 .. Len(text)} :
                text \in TextsAround}

InterpreterInit ==
    /\ top_left = Position(0)
    /\ bottom_right = Position(MaxPos + 1)
    /\ top_left_revision = 0
    /\ bottom_right_revision = 0
    /\ captured_top_left_revision = 0
    /\ captured_bottom_right_revision = 0
    /\ gemini_request_in_flight = TRUE
    /\ answer_letter_icon = None
    /\ free_response_answer_text = None
    /\ icon = LoadingIcon
    /\ pc = [t \in Threads |-> "idle"]
    /\ ret = [t \in Threads |-> "idle"]
    /\ loc = [t \in Threads |-> IdleLocals]
    /\ \E raw \in RawResponses :
        workers = [w \in Workers |->
                      IF w = 1
                      THEN [FreeWorker EXCEPT
                                !.pc = "received", !.trigger = "menu",
                                !.response = raw,
                                !.image = CaptureScreenshot(Position(0),
                                              Position(MaxPos + 1), VirtualMonitor)]
                      ELSE FreeWorker]
    /\ hist = [InitHist EXCEPT !.captures = 1]

InterpreterNext ==
    \/ \E w \in Workers : WorkerInterprets(w)
    \/ \E w \in Workers : ReleaseGate(w)
    \/ \E w \in Workers : WorkerSyncSnap(w)
    \/ \E w \in Workers : WorkerSyncCount(w)
    \/ \E w \in Workers : WorkerSyncWrite(w)

InterpreterSpec == InterpreterInit /\ [][InterpreterNext]_vars

\* ----------------------------------------------------- the analysis pipeline
\* prompt_with_uploaded_image on its own, step by step: a capture-now cycle
\* has captured the initial rectangle and its worker calls the pipeline,
\* which tries the API keys and, for each key, the models; then the worker
\* interprets the response, releases the gate and refreshes the icon.

DEFAULT_MODEL_NAME == "gemini-3.1-pro-preview"
GEMINI_MODEL_NAME == "gemini-2.5-flash"
TEST_MODE_API_KEY == "test"
MODEL_FALLBACK_PRIORITY ==
    <<"gemini-3.1-pro-preview", "gemini-2.5-pro", "gemini-2.5-flash",
      "gemini-3-flash-preview", "gemini-2.5-flash-lite">>
TEST_FREE_RESPONSE_JSON ==
    RawResponse(TRUE, "free_response", TestAnswer, TestAnswer, <<>>, 0)

\* The elements of a sequence.
Range(seq) == {seq[i] : i \in 1 .. Len(seq)}

\* The model names the pipeline is called with: the one of the tray
\* application, the default, and one that is not in the priority list.
PrimaryModels == {GEMINI_MODEL_NAME, DEFAULT_MODEL_NAME, "gemini-custom"}

\* The values of the environment variables GEMINI_API_KEY,
\* GEMINI_API_KEY_SECOND, _THIRD and _FOURTH, stripped ("": not set, or
\* blank), and the environments.
KeyValues == {"", "key-1", "key-2", TEST_MODE_API_KEY}
Environments == [1 .. MaxEnvKeys -> KeyValues]

\* _resolve_api_key_candidates: the values that are set, without repeats.
RECURSIVE ResolveCandidates(_, _, _)
ResolveCandidates(env, i, candidates) ==
    IF i > Len(env) THEN candidates
    ELSE IF env[i] = "" \/ env[i] \in Range(candidates)
    THEN ResolveCandidates(env, i + 1, candidates)
    ELSE ResolveCandidates(env, i + 1, Append(candidates, env[i]))
ResolveApiKeyCandidates(env) == ResolveCandidates(env, 1, <<>>)

\* _is_test_mode: GEMINI_API_KEY is "test".
IsTestMode(env) == env[1] = TEST_MODE_API_KEY

\* _model_fallback_order
ModelFallbackOrder(primary_model) ==
    LET IsOther(name) == name # primary_model
        ordered_models == <<primary_model>> \o MODEL_FALLBACK_PRIORITY
        IsMissing(name) == name \notin Range(ordered_models)
    IN  IF primary_model \in Range(MODEL_FALLBACK_PRIORITY)
        THEN <<primary_model>> \o SelectSeq(MODEL_FALLBACK_PRIORITY, IsOther)
        ELSE ordered_models \o SelectSeq(MODEL_FALLBACK_PRIORITY, IsMissing)

\* What one call of generate_content can end with: a response whose text
\* is a string (empty or blank: no atoms), a response with no text,
\* an error that _is_daily_quota_error tells to be of the daily quota, or
\* another error.
ModelOutcome(kind, raw) == [kind |-> kind, raw |-> raw]
ModelResponses ==
    { NoResponse,
      RawResponse(FALSE, "", "", "", << <<"B">> >>, 0),
      RawResponse(TRUE, "multiple_choice", "A", "", <<>>, 0),
      RawResponse(TRUE, "free_response", "", "42", <<>>, 0) }
ModelOutcomes ==
    {ModelOutcome("text", raw) : raw \in ModelResponses}
    \cup {ModelOutcome(kind, NoResponse) : kind \in {"missing", "quota", "error"}}

\* Mutant of IsDailyQuotaError: every error of generate_content is taken
\* for one of the daily quota.
AnyErrorIsDailyQuota(outcome) == outcome.kind \in {"quota", "error"}

\* _is_daily_quota_error
IsDailyQuotaError(outcome) == outcome.kind = "quota"

\* The kind of the exception a failing call of generate_content ends with:
\* the RuntimeError raised for an empty or missing text, or the error.
ErrorOf(outcome) ==
    IF outcome.kind \in {"text", "missing"} THEN "empty" ELSE outcome.kind

\* Mutant of IsUsableText: any text is returned.
AnyTextIsUsable(outcome) == outcome.kind = "text"

\* isinstance(text, str) and text.strip()
IsUsableText(outcome) == outcome.kind = "text" /\ Compact(outcome.raw) # <<>>

\* The pipeline returns raw to the worker.
PipelineReturns(w, raw) ==
    /\ workers' = [workers EXCEPT ![w].pc = "received", ![w].response = raw]
    /\ UNCHANGED <<corners, captured, gemini_request_in_flight, answer, icon,
                   pc, ret, loc, hist>>

\* The except clause of the loop over the keys: on to the next key, or
\* RuntimeError after the last one, which _analyze_with_gemini logs.
KeyFails(w, exc) ==
    IF workers[w].key < Len(workers[w].api_key_candidates)
    THEN /\ workers' = [workers EXCEPT ![w].pc = "upload", ![w].key = @ + 1,
                                       ![w].model = 0,
                                       ![w].last_error = exc]
         /\ UNCHANGED <<corners, captured, gemini_request_in_flight, answer,
                        icon, pc, ret, loc, hist>>
    ELSE EndWithoutAnswer(w, "error")

\* prompt_with_uploaded_image up to the first key: the test response in
\* test mode, ValueError (raised again as RuntimeError) with no key.
PipelineStarts(w) ==
    /\ workers[w].pc = "analyze"
    /\ StateLockFree
    /\ \E env \in Environments, primary_model \in PrimaryModels :
        IF IsTestMode(env) THEN PipelineReturns(w, TEST_FREE_RESPONSE_JSON)
        ELSE IF ResolveApiKeyCandidates(env) = <<>> THEN EndWithoutAnswer(w, "error")
        ELSE /\ workers' = [workers EXCEPT
                               ![w].pc = "upload",
                               ![w].api_key_candidates = ResolveApiKeyCandidates(env),
                               ![w].models = ModelFallbackOrder(primary_model),
                               ![w].key = 1]
             /\ UNCHANGED <<corners, captured, gemini_request_in_flight, answer,
                            icon, pc, ret, loc, hist>>

\* initialize_gemini and upload_image with the key being tried: the upload
\* succeeds, or the key fails.
UploadImage(w) ==
    /\ workers[w].pc = "upload"
    /\ StateLockFree
    /\ \E uploaded \in BOOLEAN :
        IF uploaded
        THEN /\ workers' = [workers EXCEPT ![w].pc = "generate", ![w].model = 1]
             /\ UNCHANGED <<corners, captured, gemini_request_in_flight, answer,
                            icon, pc, ret, loc, hist>>
        ELSE KeyFails(w, "upload")

\* One turn of the loop of _generate_with_model_fallback: generate_content
\* with the model being tried.  A usable text is returned; a daily-quota
\* error moves on to the next model, or fails the key after the last one;
\* an empty or missing text and any other error fail the key.
GenerateContent(w) ==
    /\ workers[w].pc = "generate"
    /\ StateLockFree
    /\ \E outcome \in ModelOutcomes :
        IF IsUsableText(outcome) THEN PipelineReturns(w, outcome.raw)
        ELSE IF IsDailyQuotaError(outcome)
                /\ workers[w].model < Len(workers[w].models)
        THEN /\ workers' = [workers EXCEPT ![w].model = @ + 1,
                                           ![w].last_error = ErrorOf(outcome)]
             /\ UNCHANGED <<corners, captured, gemini_request_in_flight, answer,
                            icon, pc, ret, loc, hist>>
        ELSE KeyFails(w, ErrorOf(outcome))

PipelineInit ==
    /\ top_left = Position(0)
    /\ bottom_right = Position(MaxPos + 1)
    /\ top_left_revision = 0
    /\ bottom_right_revision = 0
    /\ captured_top_left_revision = 0
    /\ captured_bottom_right_revision = 0
    /\ gemini_request_in_flight = TRUE
    /\ answer_letter_icon = None
    /\ free_response_answer_text = None
    /\ icon = LoadingIcon
    /\ pc = [t \in Threads |-> "idle"]
    /\ ret = [t \in Threads |-> "idle"]
    /\ loc = [t \in Threads |-> IdleLocals]
    /\ workers = [w \in Workers |->
                     IF w = 1
                     THEN [FreeWorker EXCEPT
                               !.pc = "analyze", !.trigger = "menu",
                               !.image = CaptureScreenshot(Position(0),
                                             Position(MaxPos + 1), VirtualMonitor)]
                     ELSE FreeWorker]
    /\ hist = [InitHist EXCEPT !.captures = 1]

PipelineNext ==
    \/ \E w \in Workers : PipelineStarts(w)
    \/ \E w \in Workers : UploadImage(w)
    \/ \E w \in Workers : GenerateContent(w)
    \/ \E w \in Workers : WorkerInterprets(w)
    \/ \E w \in Workers : ReleaseGate(w)
    \/ \E w \in Workers : WorkerSyncSnap(w)
    \/ \E w \in Workers : WorkerSyncCount(w)
    \/ \E w \in Workers : WorkerSyncWrite(w)

PipelineSpec == PipelineInit /\ [][PipelineNext]_vars

\* --------------------------------------------------- the capture of a region
\* The capture on its own: the hotkeys have put the two corners somewhere
\* (a cycle started by the second one has ended with no answer), the desktop
\* is one of Monitors, and the menu command "Capture Screenshot" captures
\* the rectangle and starts the analysis.

Points == {<<x, y>> : x \in 0 .. MaxCoord, y \in 0 .. MaxCoord}

\* The desktops: the one pixel at the origin, and two by two pixels from (1, 1).
Monitors == {VirtualMonitor, [left |-> 1, top |-> 1, width |-> 2, height |-> 2]}

\* The revision of a corner at point: 0 at its initial point, 1 elsewhere.
RevisionAt(point, initial) == IF point = initial THEN 0 ELSE 1

CaptureInit ==
    /\ top_left \in Points
    /\ bottom_right \in Points
    /\ top_left_revision = RevisionAt(top_left, Position(0))
    /\ bottom_right_revision = RevisionAt(bottom_right, Position(MaxPos + 1))
    /\ IF top_left_revision = 1 /\ bottom_right_revision = 1
       THEN captured_top_left_revision = 1 /\ captured_bottom_right_revision = 1
       ELSE captured_top_left_revision = 0 /\ captured_bottom_right_revision = 0
    /\ gemini_request_in_flight = FALSE
    /\ answer_letter_icon = None
    /\ free_response_answer_text = None
    /\ icon = StatusIcon(UpdatedCornerCount)
    /\ pc = [t \in Threads |-> "idle"]
    /\ ret = [t \in Threads |-> "idle"]
    /\ \E monitor \in Monitors :
        loc = [t \in Threads |-> [IdleLocals EXCEPT !.virtual_monitor = monitor]]
    /\ workers = [w \in Workers |-> FreeWorker]
    /\ hist = InitHist

CaptureNext ==
    \/ OnCapture
    \/ CaptureNowReadTopLeft
    \/ CaptureNowReadBottomRight
    \/ \E t \in Threads : CapCheckBlocked(t)
    \/ \E t \in Threads : CapSetBlocked(t)
    \/ \E t \in Threads : CaptureAndStartAnalysis(t)
    \/ \E t \in Threads : CaptureFails(t)
    \/ \E t \in Threads : SyncSnap(t)
    \/ \E t \in Threads : SyncCount(t)
    \/ \E t \in Threads : SyncWrite(t)
    \/ \E w \in Workers : AnalysisCommitsAnswer(w)
    \/ \E w \in Workers : ReleaseGate(w)
    \/ \E w \in Workers : AnalysisEndsWithoutAnswer(w)
    \/ \E w \in Workers : WorkerSyncSnap(w)
    \/ \E w \in Workers : WorkerSyncCount(w)
    \/ \E w \in Workers : WorkerSyncWrite(w)

CaptureSpec == CaptureInit /\ [][CaptureNext]_vars

\* ------------------------------------------------------------------ claims
\* Thread t has set the gate and its capture has neither failed nor been
\* handed to a worker; worker w has not yet released the gate.
ThreadInCycle(t) == pc[t] = "capture"
WorkerInCycle(w) == workers[w].pc \in {"analyze", "release"}
CyclesInProgress ==
    Cardinality({t \in Threads : ThreadInCycle(t)})
  + Cardinality({w \in Workers : WorkerInCycle(w)})

AnswerCached == answer_letter_icon # None \/ free_response_answer_text # None

\* The step in which thread t sets the gate, and the step in which the cycle
\* of worker w ends (the gate is released in its finally clause) together
\* with what its pipeline call had ended with.
StartsCycle(t) == pc[t] = "cap_set" /\ pc'[t] = "capture"
CycleEnds(w) == WorkerInCycle(w) /\ workers'[w].pc = "sync_snap"
EndedWith(w) ==
    IF workers[w].pc = "release" THEN workers[w].outcome ELSE workers'[w].outcome

\* C1: at most one capture+analysis cycle is in progress at any time, under
\* every interleaving of the hotkey thread, the menu thread and the workers.
C1_AtMostOneCycle == CyclesInProgress <= 1

\* C2: a cached Letter or FreeForm answer is never the answer of a cycle
\* whose corner points were read before a corner's last position change.
C2_AnswerOfCurrentRectangle == AnswerCached => ~hist.answer_stale

\* C3: a cycle whose pipeline call returned ends with the gate released and
\* its consumed revisions marked exactly once, whichever handler started it.
C3_SuccessMarksConsumedOnce ==
    [][\A w \in Workers :
        CycleEnds(w) /\ EndedWith(w) # "error"
            => ~gemini_request_in_flight' /\ workers[w].marks = 1]_vars

\* C4: the hotkey handler starts a cycle exactly when the gate is free and
\* both corners have a revision above their consumed revision: it sets the
\* gate only in such a state, and gives up only in a state that is not such.
C4_HotkeyStartsIffFreeAndBothUpdated ==
    [][/\ StartsCycle("hotkey") => ~gemini_request_in_flight /\ BothUpdated
       /\ ( /\ pc["hotkey"] \in {"try_check", "try_read", "cap_check"}
            /\ pc'["hotkey"] \in {"idle", "sync_snap"} )
            => ~(~gemini_request_in_flight /\ BothUpdated)]_vars

\* C5: a hotkey event whose pointer position equals the corner's position
\* (its update changed nothing) never starts a capture cycle.
C5_NoOpHotkeyStartsNoCycle ==
    [][StartsCycle("hotkey") => loc["hotkey"].changed]_vars

\* C6: an update to the corner's current point returns false and leaves the
\* points, the revisions and the consumed revisions as they were; an update
\* to another point stores it, adds one to that corner's revision only and
\* returns true.
C6_UpdatePosition ==
    [][pc["hotkey"] = "set" /\ pc'["hotkey"] # "set" =>
        LET id == loc["hotkey"].hotkey_id
            position == loc["hotkey"].position
            current == IF id = HOTKEY_ID_TOP_LEFT THEN top_left ELSE bottom_right
        IN  /\ UNCHANGED captured
            /\ IF position = current
               THEN /\ ~loc'["hotkey"].changed
                    /\ UNCHANGED corners
               ELSE /\ loc'["hotkey"].changed
                    /\ IF id = HOTKEY_ID_TOP_LEFT
                       THEN /\ top_left' = position
                            /\ top_left_revision' = top_left_revision + 1
                            /\ UNCHANGED <<bottom_right, bottom_right_revision>>
                       ELSE /\ bottom_right' = position
                            /\ bottom_right_revision' = bottom_right_revision + 1
                            /\ UNCHANGED <<top_left, top_left_revision>>]_vars

\* C6 witness: an update to the current point of a corner that had moved
\* before has just returned false.
C6_Witness ==
    /\ pc["hotkey"] = "sync_snap" /\ ret["hotkey"] = "try"
    /\ ~loc["hotkey"].changed
    /\ top_left_revision = 1 /\ bottom_right_revision = 1

\* C7: both_updated is true exactly when each corner has had a
\* position-changing update since the consumed revisions were last marked.
C7_BothUpdatedIffBothMoved ==
    BothUpdated <=> (hist.moved_top_left /\ hist.moved_bottom_right)

\* C7 witness: the consumed revisions were marked, and one corner has moved
\* since.
C7_Witness ==
    /\ captured_top_left_revision >= 1 /\ captured_bottom_right_revision >= 1
    /\ (hist.moved_top_left \/ hist.moved_bottom_right)
    /\ ~BothUpdated

\* The steps of thread t, and the part of its handler after a capture that
\* failed: the icon refresh of the except clause and what follows it.
StepOf(t) == pc'[t] # pc[t] \/ ret'[t] # ret[t] \/ loc'[t] # loc[t]
SyncPcs == {"sync_snap", "sync_count", "sync_write"}
AfterCaptureFailure(t) == pc[t] \in SyncPcs /\ ret[t] \in {"raise", "idle"}
NoWorkerStarted == \A w \in Workers : workers[w].pc = "free" => workers'[w].pc = "free"

\* C8: a capture that fails before a readable image exists releases the
\* gate, starts no worker and leaves the consumed revisions alone, and its
\* handler then only refreshes the icon and returns: nothing is retried.
C8_CaptureFailure ==
    [][\A t \in Threads :
        /\ (pc[t] = "capture" /\ loc'[t].exc # None)
            => /\ ~gemini_request_in_flight'
               /\ UNCHANGED captured
               /\ NoWorkerStarted
               /\ AfterCaptureFailure(t)'
        /\ (AfterCaptureFailure(t) /\ StepOf(t))
            => /\ UNCHANGED <<captured, gemini_request_in_flight>>
               /\ NoWorkerStarted
               /\ (AfterCaptureFailure(t)' \/ pc'[t] = "idle")]_vars

\* C8 witness: the image was not ready by the deadline in a capture of the
\* hotkey thread; the gate is free again and both corners are unconsumed.
C8_Witness ==
    /\ pc["hotkey"] = "sync_snap" /\ ret["hotkey"] = "raise"
    /\ loc["hotkey"].exc = "RuntimeError"
    /\ ~gemini_request_in_flight
    /\ BothUpdated

\* C9: a cycle whose pipeline call failed ends with the gate released and
\* its consumed revisions marked, whichever handler started it.
C9_PipelineFailureMarksConsumed ==
    [][\A w \in Workers :
        CycleEnds(w) /\ EndedWith(w) = "error"
            => ~gemini_request_in_flight' /\ workers[w].marks >= 1]_vars

\* C10: under fair scheduling, whenever the gate is set it is released.
C10_GateEventuallyReleased ==
    gemini_request_in_flight ~> ~gemini_request_in_flight

\* C10 witness: a pipeline call has failed and its worker has released the
\* gate.
C10_Witness ==
    \E w \in Workers :
        /\ workers[w].pc = "sync_snap" /\ workers[w].outcome = "error"
        /\ ~gemini_request_in_flight

\* Thread t is at a gate check: the first statement of
\* _try_capture_after_corner_updates or of _capture_and_process.
AtGateCheck(t) == pc[t] \in {"try_check", "cap_check"}

\* C11: of two capture attempts with no cycle completion between them the
\* second is rejected: no attempt sets the gate while it is set, and an
\* attempt that meets the set gate gives up at once, leaving the gate, the
\* corners and revisions, the consumed revisions and the cached answer alone.
C11_SecondAttemptRejected ==
    [][\A t \in Threads :
        /\ StartsCycle(t) => ~gemini_request_in_flight
        /\ (AtGateCheck(t) /\ StepOf(t) /\ gemini_request_in_flight)
            => /\ UNCHANGED <<gemini_request_in_flight, corners, captured, answer>>
               /\ pc'[t] \in {"idle", "sync_snap"}]_vars

\* The handler of thread t has not yet made its capture attempt, or has made
\* it (accepted, rejected or failed) and is on its way out.
BeforeAttempt(t) ==
    \/ pc[t] \in {"set", "try_check", "try_read", "read_top_left",
                  "read_bottom_right", "cap_check", "cap_set"}
    \/ pc[t] \in SyncPcs /\ ret[t] = "try"
AfterAttempt(t) ==
    \/ pc[t] \in {"capture", "mark"}
    \/ pc[t] \in SyncPcs /\ ret[t] \in {"raise", "idle"}
EventArrives ==
    hist'.hotkeys = hist.hotkeys + 1 \/ hist'.captures = hist.captures + 1

CornerMoves ==
    /\ pc["hotkey"] = "set" /\ pc'["hotkey"] # "set"
    /\ loc'["hotkey"].changed

\* C13: a hotkey event clears the cached answer before its corner update is
\* applied: the event leaves no Letter/FreeForm cached, and at the moment
\* its update has moved the corner none is cached.
C13_NoAnswerWhenCornerMoves ==
    [][/\ (pc["hotkey"] = "idle" /\ pc'["hotkey"] = "set") => ~AnswerCached'
       /\ CornerMoves => ~AnswerCached']_vars

\* C14: for each corner the consumed revision is at most the revision, in
\* every reachable state.
C14_ConsumedAtMostRevision ==
    /\ captured_top_left_revision <= top_left_revision
    /\ captured_bottom_right_revision <= bottom_right_revision

\* C14 witness: the consumed revisions were marked at the revisions of both
\* corners, one corner has moved since, and the handlers have returned.
C14_Witness ==
    /\ captured_top_left_revision = 1
    /\ captured_bottom_right_revision = 1
    /\ UpdatedCornerCount = 1
    /\ \A t \in Threads : pc[t] = "idle"

\* C15: a step leaves each corner's revision as it is or adds exactly one,
\* and never lowers a consumed revision.
C15_RevisionsMonotone ==
    [][/\ top_left_revision' \in {top_left_revision, top_left_revision + 1}
       /\ bottom_right_revision' \in {bottom_right_revision, bottom_right_revision + 1}
       /\ captured_top_left_revision' >= captured_top_left_revision
       /\ captured_bottom_right_revision' >= captured_bottom_right_revision]_vars

\* C15 witness: the consumed revisions were advanced to the first revisions,
\* and an update has just taken a corner to its second revision.
C15_Witness ==
    /\ top_left_revision + bottom_right_revision = 3
    /\ captured_top_left_revision = 1 /\ captured_bottom_right_revision = 1
    /\ pc["hotkey"] = "sync_snap" /\ ret["hotkey"] = "try"

\* C16: at most one of the cached Letter and the cached FreeForm answer is
\* set; a cached letter is one of the letters and cached free-form text is
\* not empty.
C16_OneAnswerKind ==
    /\ answer_letter_icon = None \/ free_response_answer_text = None
    /\ answer_letter_icon # None => answer_letter_icon \in Letters
    /\ free_response_answer_text # None => free_response_answer_text # ""

\* C16 witness: two workers have committed, one free-form text and one a
\* letter; the letter was committed last and the text is gone.
C16_Witness ==
    /\ \E v, w \in Workers :
        /\ workers[v].pc = "release" /\ workers[v].outcome = "free"
        /\ workers[w].pc = "release" /\ workers[w].outcome = "letter"
    /\ answer_letter_icon \in Letters
    /\ free_response_answer_text = None

\* The step in which the hotkey thread marks the consumed revisions.
MarksConsumed == pc["hotkey"] = "mark" /\ pc'["hotkey"] # "mark"

\* C17: the consumed revisions are marked only when the pipeline call of the
\* cycle that consumes them has ended (its worker has a result or is gone),
\* and an attempt rejected by the gate neither marks them nor goes on to.
C17_MarkAfterPipelineResult ==
    [][/\ MarksConsumed
            => (hist.spawned = 0 \/ workers[hist.spawned].pc # "analyze")
       /\ \A t \in Threads :
            (AtGateCheck(t) /\ StepOf(t) /\ gemini_request_in_flight)
                => UNCHANGED captured /\ pc'[t] # "mark"
       /\ ~MarksConsumed => UNCHANGED captured]_vars

\* The step in which thread t makes its capture (capture_and_save is called
\* on the corner points it read), whatever the capture ends with.
Captures(t) == pc[t] = "capture" /\ pc'[t] # "capture"

\* C18: the pair of corner points a cycle captures was the current
\* (top_left, bottom_right) at some moment while the cycle held the gate.
C18_CapturedPairCurrentWhileHeld ==
    [][\A t \in Threads : Captures(t) => t \in hist.held_current]_vars

\* The step in which a refresh of the icon reads the corner revisions
\* (_updated_corner_count), by a handler thread or by a worker.
CountsCorners ==
    \/ \E t \in Threads : pc[t] = "sync_count" /\ pc'[t] = "sync_write"
    \/ \E w \in Workers : workers[w].pc = "sync_count" /\ workers'[w].pc = "sync_write"

\* C19: an icon refresh computes the Idle corner count from the revisions
\* of the state whose gate and cached answer it observed: when it reads the
\* revisions the gate is still free and no answer is cached.
C19_RefreshFromOneSnapshot ==
    [][CountsCorners => SyncSnapshot = CountPending]_vars

\* A worker is in the blocking call prompt_with_uploaded_image.
AnalysisRunning == \E w \in Workers : workers[w].pc = "analyze"

Interpreted(w) ==
    \/ workers[w].pc = "release"
    \/ workers[w].pc = "sync_snap" /\ workers[w].outcome = "none"

\* What the interpreter yielded, as the worker committed it: the cached
\* letter and free-form text, both None when it yielded none.
Yielded == <<answer_letter_icon, free_response_answer_text>>

\* The letters a text labels: the one-letter words that follow a label,
\* after an optional ":" or "-" and an optional "(".
LabelledLetters(text) ==
    LET n == Len(text)
        After(i) ==
            LET j == IF i + 1 <= n /\ text[i + 1] \in {<<":">>, <<"-">>}
                     THEN i + 2 ELSE i + 1
            IN  IF j <= n /\ text[j] = <<"(">> THEN j + 1 ELSE j
    IN  {UpperChar(text[After(i)][1]) :
            i \in {m \in 1 .. n : /\ UpperWord(text[m]) \in LabelWords
                                  /\ After(m) <= n
                                  /\ Len(text[After(m)]) = 1
                                  /\ UpperChar(text[After(m)][1]) \in Letters}}

\* C21: for a response with no JSON object whose text has a labelled letter,
\* the interpreter yields Letter of a labelled letter, never a letter of a
\* word that follows the label.
C21_LabelledLetterYielded ==
    \A w \in Workers :
        /\ Interpreted(w)
        /\ ~workers[w].response.json
        /\ LabelledLetters(workers[w].response.text) # {}
        => /\ answer_letter_icon \in LabelledLetters(workers[w].response.text)
           /\ free_response_answer_text = None

\* The uppercase letters that are words of a text on their own.
UppercaseTokens(text) ==
    {text[i][1] : i \in {m \in 1 .. Len(text) :
                            Len(text[m]) = 1 /\ text[m][1] \in Letters}}

\* C22: for a response with no JSON object, no labelled letter and no
\* uppercase letter standing alone, the interpreter yields none (the worker
\* ends the cycle with nothing cached); lowercase letters standing alone do
\* not make a Letter.
C22_NoLetterTokenYieldsNone ==
    \A w \in Workers :
        /\ Interpreted(w)
        /\ ~workers[w].response.json
        /\ LabelledLetters(workers[w].response.text) = {}
        /\ UppercaseTokens(workers[w].response.text) = {}
        => /\ workers[w].outcome = "none"
           /\ Yielded = <<None, None>>

\* C23: when a JSON object was obtained the fields alone decide: a
\* free_response object with neither free_response_answer nor answer yields
\* none, and so does any other object whose answer is not one letter A-Z,
\* whatever the text of the response.
C23_JsonFieldsAloneDecide ==
    \A w \in Workers :
        LET raw == workers[w].response
        IN  /\ Interpreted(w)
            /\ raw.json
            /\ \/ /\ raw.question_type = "free_response"
                  /\ raw.free_response_answer = ""
                  /\ raw.answer = ""
               \/ /\ raw.question_type # "free_response"
                  /\ raw.answer \notin Letters
            => /\ workers[w].outcome = "none"
               /\ Yielded = <<None, None>>

\* C24: for a JSON object with question_type "free_response" the interpreter
\* yields the free-form text free_response_answer when that is not empty,
\* else the free-form text answer when that is not empty, also when answer
\* is one letter A-Z.
C24_FreeResponseYieldsFreeForm ==
    \A w \in Workers :
        LET raw == workers[w].response
        IN  /\ Interpreted(w)
            /\ raw.json
            /\ raw.question_type = "free_response"
            => /\ raw.free_response_answer # ""
                  => Yielded = <<None, raw.free_response_answer>>
               /\ raw.free_response_answer = "" /\ raw.answer # ""
                  => Yielded = <<None, raw.answer>>

\* A free_response object with only a one-letter answer was interpreted and
\* the letter is cached as free-form text.
C24_Witness ==
    \E w \in Workers :
        /\ Interpreted(w)
        /\ workers[w].response.json
        /\ workers[w].response.question_type = "free_response"
        /\ workers[w].response.free_response_answer = ""
        /\ workers[w].response.answer \in Letters
        /\ Yielded = <<None, workers[w].response.answer>>

\* C25: for a JSON object whose question_type is not "free_response" and
\* whose answer is one letter A-Z, the interpreter yields that letter and the
\* worker commits it as the cached letter.
C25_JsonLetterCommitted ==
    \A w \in Workers :
        LET raw == workers[w].response
        IN  /\ Interpreted(w)
            /\ raw.json
            /\ raw.question_type # "free_response"
            /\ raw.answer \in Letters
            => /\ workers[w].outcome = "letter"
               /\ Yielded = <<raw.answer, None>>

\* An object with the answer A, in a text that labels another letter, was
\* interpreted and A is cached.
C25_Witness ==
    \E w \in Workers :
        /\ Interpreted(w)
        /\ workers[w].response.json
        /\ workers[w].response.question_type # "free_response"
        /\ workers[w].response.answer = "A"
        /\ LabelledLetters(workers[w].response.text) = {"B"}
        /\ Yielded = <<"A", None>>

\* ---------------------------------------------------- claims on the capture
\* The pixels of a region, of the rectangle spanned by two corner points, and
\* of the desktop.
Pixels(region) ==
    {<<x, y>> : x \in region.left .. region.left + region.width - 1,
                y \in region.top .. region.top + region.height - 1}
RequestedPixels(a, b) ==
    {<<x, y>> : x \in Min(a[1], b[1]) .. Max(a[1], b[1]) - 1,
                y \in Min(a[2], b[2]) .. Max(a[2], b[2]) - 1}
RequestedOnDesktop(t) ==
    RequestedPixels(loc[t].top_left, loc[t].bottom_right)
        \cap Pixels(loc[t].virtual_monitor)

\* Thread t makes its capture in this step.
CaptureStep(t) == pc[t] = "capture" /\ pc'[t] # "capture"

\* C26: the capture of two corners whose rectangle has no width or no height,
\* or no pixel on the desktop, fails with ValueError and makes no image (no
\* worker is started), in either order of the corners.
C26_InvalidRegionFails ==
    [][\A t \in Threads :
          /\ CaptureStep(t)
          /\ \/ loc[t].top_left[1] = loc[t].bottom_right[1]
             \/ loc[t].top_left[2] = loc[t].bottom_right[2]
             \/ RequestedOnDesktop(t) = {}
          => /\ loc'[t].exc = "ValueError"
             /\ workers' = workers]_vars

\* A capture has failed for a rectangle with width and height that lies off
\* the desktop, its corners given right to left.
C26_Witness ==
    /\ pc["menu"] = "sync_snap"
    /\ ret["menu"] = "raise"
    /\ loc["menu"].exc = "ValueError"
    /\ loc["menu"].top_left[1] > loc["menu"].bottom_right[1]
    /\ loc["menu"].top_left[2] # loc["menu"].bottom_right[2]
    /\ RequestedOnDesktop("menu") = {}

\* C27: the capture of a rectangle with a pixel on the desktop does not fail
\* for the rectangle (no ValueError), and the region it grabs is the
\* rectangle's part on the desktop: positive width and height, and the
\* pixels that are in the rectangle and on the desktop.
C27_GrabbedRegionIsIntersection ==
    [][\A t \in Threads :
          CaptureStep(t) /\ RequestedOnDesktop(t) # {}
          => /\ loc'[t].exc # "ValueError"
             /\ workers' # workers
                => \E w \in Workers :
                      /\ workers[w].pc = "free"
                      /\ workers'[w].pc = "analyze"
                      /\ workers'[w].image.error = None
                      /\ workers'[w].image.width > 0
                      /\ workers'[w].image.height > 0
                      /\ Pixels(workers'[w].image) = RequestedOnDesktop(t)]_vars

\* A worker analyses an image that is a part of the desktop and a part of
\* the rectangle, the corners given right to left.
C27_Witness ==
    \E w \in Workers :
        /\ workers[w].pc = "analyze"
        /\ top_left[1] > bottom_right[1]
        /\ Pixels(workers[w].image) # {}
        /\ Pixels(workers[w].image) # RequestedPixels(top_left, bottom_right)
        /\ Pixels(workers[w].image) # Pixels(loc["menu"].virtual_monitor)
        /\ Pixels(workers[w].image) =
              RequestedPixels(top_left, bottom_right)
                  \cap Pixels(loc["menu"].virtual_monitor)

\* --------------------------------------------------- claims on the pipeline
\* C28: whenever prompt_with_uploaded_image returns to the worker, the text
\* it returns is not empty after trimming (it has an atom); no empty or
\* missing model response is returned.
C28_ReturnedTextNotEmpty ==
    \A w \in Workers :
        workers[w].pc = "received" => Compact(workers[w].response) # <<>>

\* The pipeline has returned the text of the second model tried with the
\* second key.
C28_Witness ==
    \E w \in Workers :
        /\ workers[w].pc = "received"
        /\ workers[w].key = 2
        /\ workers[w].model = 2
        /\ Compact(workers[w].response) # <<>>

\* ------------------------------------------- claims on the end of a cycle
\* The steps of worker w: it commits its answer, it releases the gate, it
\* refreshes the icon (from the first snapshot to the write).
Commits(w) == workers[w].pc \in {"analyze", "received"} /\ workers'[w].pc = "release"
Releases(w) ==
    /\ workers[w].pc \in {"analyze", "received", "release"}
    /\ workers'[w].pc = "sync_snap"
Refreshes(w) ==
    /\ workers[w].pc \in {"sync_snap", "sync_count", "sync_write"}
    /\ workers'[w].pc # workers[w].pc

\* C29: in a cycle the worker commits the answer before it releases the
\* gate and refreshes the icon after the release: the commit leaves the
\* gate and the icon alone, the release comes with the answer committed
\* already or with none to commit and leaves the answer and the icon alone,
\* and the refresh, which follows the release, changes neither the answer
\* nor the gate.
C29_CommitThenReleaseThenRefresh ==
    [][\A w \in Workers :
          /\ Commits(w) => /\ answer' # <<None, None>>
                           /\ gemini_request_in_flight' = gemini_request_in_flight
                           /\ icon' = icon
          /\ Releases(w) => /\ answer' = answer
                            /\ ~gemini_request_in_flight'
                            /\ icon' = icon
                            /\ workers[w].pc = "release" \/ workers'[w].outcome # None
          /\ Refreshes(w) => /\ answer' = answer
                             /\ gemini_request_in_flight' = gemini_request_in_flight
          /\ icon' # icon /\ workers'[w].pc # workers[w].pc
             => workers[w].pc = "sync_write"
          /\ workers'[w].pc # workers[w].pc /\ workers[w].pc # "free"
             => Commits(w) \/ Releases(w) \/ Refreshes(w)]_vars

\* A worker has committed a letter and released the gate, and is about to
\* write the letter's icon.
C29_Witness ==
    \E w \in Workers :
        /\ workers[w].pc = "sync_write"
        /\ workers[w].pend = LetterIcon(answer_letter_icon)
        /\ answer_letter_icon # None
        /\ ~gemini_request_in_flight

\* The cycle of worker w ends in this step with no answer in the response
\* or with the pipeline failed: the worker releases the gate.
EndsWithoutAnswer(w) ==
    /\ workers[w].pc \in {"analyze", "received"}
    /\ workers'[w].pc = "sync_snap"
    /\ workers'[w].outcome \in {"none", "error"}

\* C30: when a cycle ends with neither a letter nor a free-form answer, or
\* with the pipeline failed, no answer is cached, so that the state shown
\* is the count of updated corners; also when the cycle was started by
\* capture-now while the answer of an earlier cycle was cached.
C30_NoAnswerAfterCycleWithoutAnswer ==
    [][\A w \in Workers :
          EndsWithoutAnswer(w) => /\ answer' = <<None, None>>
                                  /\ ~gemini_request_in_flight'
                                     => SyncSnapshot' = CountPending]_vars

\* ---------------------------------------------- claims on the final icon
\* No handler is running and no worker thread is alive.
Quiescent ==
    /\ \A t \in Threads : pc[t] = "idle"
    /\ \A w \in Workers : workers[w].pc = "free"

\* The icon of the shared state: loading, pencil, the cached letter, or the
\* count of updated corners.
IconOfState ==
    IF SyncSnapshot = CountPending THEN StatusIcon(UpdatedCornerCount)
    ELSE SyncSnapshot

\* C31: once no handler is running and no cycle is in flight, the icon last
\* written is the one of the shared state; no letter or pencil icon stays
\* after a corner update cleared the answer.
C31_FinalIconIsOfState == Quiescent => icon = IconOfState

\* ------------------------------------------- claims on the fallback ladder
\* The keys that are configured, in the order of their variables, each once.
ConfiguredKeys(env) ==
    LET IsFirst(i) == env[i] # "" /\ \A j \in 1 .. i - 1 : env[j] # env[i]
        places == SelectSeq([i \in 1 .. Len(env) |-> i], IsFirst)
    IN  [n \in 1 .. Len(places) |-> env[places[n]]]

\* The primary model, then the other models of the priority list.
PrimaryThenOthers(primary_model) ==
    LET IsOther(name) == name # primary_model
    IN  <<primary_model>> \o SelectSeq(MODEL_FALLBACK_PRIORITY, IsOther)

\* No element of the sequence is repeated.
NoDuplicates(seq) ==
    \A i, j \in 1 .. Len(seq) : seq[i] = seq[j] => i = j

\* Worker w is in the ladder: it tries a key.
InLadder(w) == workers[w].pc \in {"upload", "generate"}

\* A step of worker w in which a call made with the key being tried failed
\* for that key: neither the upload succeeded, nor a text was returned, nor
\* the next model is tried.
KeyFailure(w) ==
    /\ InLadder(w)
    /\ workers'[w] # workers[w]
    /\ workers'[w].pc \notin {"generate", "received"}

\* One step of worker w on the ladder.
LadderStep(w) ==
    /\ workers[w].pc = "analyze" /\ workers'[w].pc = "upload"
       => /\ workers'[w].key = 1
          /\ \E env \in Environments :
                workers'[w].api_key_candidates = ConfiguredKeys(env)
          /\ \E primary_model \in PrimaryModels :
                workers'[w].models = PrimaryThenOthers(primary_model)
          /\ NoDuplicates(workers'[w].models)
    /\ workers[w].pc = "upload" /\ workers'[w].pc = "generate"
       => /\ workers'[w].key = workers[w].key
          /\ workers'[w].model = 1
    /\ InLadder(w) /\ workers'[w].model > 1
                   /\ workers'[w].model # workers[w].model
       => /\ workers[w].pc = "generate" /\ workers'[w].pc = "generate"
          /\ workers'[w].key = workers[w].key
          /\ workers'[w].model = workers[w].model + 1
          /\ workers'[w].last_error = "quota"
    /\ KeyFailure(w)
       => IF workers[w].key < Len(workers[w].api_key_candidates)
          THEN /\ workers'[w].pc = "upload"
               /\ workers'[w].key = workers[w].key + 1
               /\ workers'[w].outcome = None
          ELSE workers'[w].outcome = "error"
    /\ InLadder(w) /\ workers'[w].key # workers[w].key
       => KeyFailure(w)
    /\ InLadder(w) /\ workers'[w].pc = "received"
       => /\ workers[w].pc = "generate"
          /\ Compact(workers'[w].response) # <<>>
    /\ InLadder(w) /\ workers'[w].outcome = "error"
       => workers[w].key = Len(workers[w].api_key_candidates)

\* C32: the ladder tries the keys in the configured order and, for each key,
\* the primary model and then the other priority models, none twice; it goes
\* on to the next model only after a daily-quota error, on to the next key
\* after any failure of the key being tried, returns the first text that is
\* not empty, and raises RuntimeError only when the last key has failed.
C32_FallbackLadder == [][\A w \in Workers : LadderStep(w)]_vars

\* The last key is being tried with the last model, after daily-quota
\* errors of all the models before it.
C32_Witness ==
    \E w \in Workers :
        /\ workers[w].pc = "generate"
        /\ Len(workers[w].api_key_candidates) > 1
        /\ workers[w].key = Len(workers[w].api_key_candidates)
        /\ workers[w].model = Len(workers[w].models)
        /\ workers[w].last_error = "quota"

============================================================================
